---- MODULE Spec2Model ----
(***************************************************************************)
(* Model of OpenMaths/mod-utils: the Conditionals predicate layer and the  *)
(* `match` dispatcher built on it.                                         *)
(*                                                                         *)
(* A JavaScript value is a record [t, s, n, items]:                        *)
(*   t     the runtime kind: "undefined", "null", "boolean", "number",     *)
(*         "string", "symbol", "function", "array", "object"               *)
(*   s     the text of a string / boolean / symbol / function name, "NaN"  *)
(*         for the number NaN, the reference identity of an array/object   *)
(*   n     the numeric value of a number                                   *)
(*   items the elements of an array, the properties of an object (each a   *)
(*         "property" record whose items are <<key, value>>)               *)
(***************************************************************************)
EXTENDS Integers, Sequences, FiniteSets

VARIABLES pc, val, args, normalizedArms, defaultArm, idx, explicitMatch,
          evaluation, result, error, calls, predCall

vars == <<pc, val, args, normalizedArms, defaultArm, idx, explicitMatch,
          evaluation, result, error, calls, predCall>>

(* ------------------------------ bounds --------------------------------- *)

\* longest argument list given to match(v)(...args)
MaxArgs == 3

(* --------------------------- value constructors ------------------------ *)

Mk(t, s, n, items) == [t |-> t, s |-> s, n |-> n, items |-> items]

Undef == Mk("undefined", "", 0, <<>>)
Null == Mk("null", "", 0, <<>>)
Bool(b) == Mk("boolean", IF b THEN "true" ELSE "false", 0, <<>>)
Num(n) == Mk("number", "", n, <<>>)
NaN == Mk("number", "NaN", 0, <<>>)
\* the non-integral number n + 0.5, n >= 0
Half(n) == Mk("number", ".5", n, <<>>)
Str(s) == Mk("string", s, 0, <<>>)
Sym(s) == Mk("symbol", s, 0, <<>>)
Fn(s) == Mk("function", s, 0, <<>>)
Arr(id, items) == Mk("array", id, 0, items)
Prop(k, v) == Mk("property", "", 0, <<k, v>>)

\* absent index of Array.prototype.find / an unset local
None == 0

(* ------------------------- language primitives ------------------------- *)

Digits == <<"0", "1", "2", "3", "4", "5", "6", "7", "8", "9">>

RECURSIVE NatToStr(_)
NatToStr(n) ==
  IF n < 10 THEN Digits[n + 1] ELSE NatToStr(n \div 10) \o Digits[(n % 10) + 1]

\* Number::toString for integers
NumToStr(n) == IF n < 0 THEN "-" \o NatToStr(0 - n) ELSE NatToStr(n)

\* ToString of a primitive, as a template literal or a property key applies it
ToString(v) ==
  CASE v.t = "undefined" -> "undefined"
    [] v.t = "null" -> "null"
    [] v.t = "number" -> IF v.s = "NaN" THEN "NaN" ELSE NumToStr(v.n) \o v.s
    [] OTHER -> v.s

\* ToPropertyKey: symbols stay symbols, everything else becomes a string
ToPropertyKey(k) == IF k.t = "symbol" THEN k ELSE Str(ToString(k))

\* the === operator
StrictEquals(a, b) ==
  /\ a.t = b.t
  /\ CASE a.t = "number" -> a.s # "NaN" /\ b.s # "NaN" /\ a.n = b.n /\ a.s = b.s
       [] a.t \in {"undefined", "null"} -> TRUE
       [] OTHER -> a.s = b.s

\* String.prototype.indexOf(sub): the first 0-based position of sub, or -1
IndexOf(s, sub) ==
  LET hits == {i \in 1..(Len(s) - Len(sub) + 1) : SubSeq(s, i, i + Len(sub) - 1) = sub}
  IN IF hits = {} THEN 0 - 1
     ELSE (CHOOSE i \in hits : \A j \in hits : i <= j) - 1

\* element i of an array, undefined past its end (destructuring / indexing)
At(items, i) == IF i <= Len(items) THEN items[i] ELSE Undef

(* ------------------------------ objects -------------------------------- *)

KeyOf(p) == p.items[1]
ValueOf(p) == p.items[2]
SameKey(k1, k2) == k1.t = k2.t /\ k1.s = k2.s

\* define or overwrite one property, keeping the creation order of keys
RECURSIVE PutProp(_, _, _)
PutProp(props, k, v) ==
  IF props = <<>> THEN <<Prop(k, v)>>
  ELSE IF SameKey(KeyOf(Head(props)), k) THEN <<Prop(k, v)>> \o Tail(props)
  ELSE <<Head(props)>> \o PutProp(Tail(props), k, v)

RECURSIVE LitProps(_)
LitProps(entries) ==
  IF entries = <<>> THEN <<>>
  ELSE LET n == Len(entries)
       IN PutProp(LitProps(SubSeq(entries, 1, n - 1)),
                  ToPropertyKey(entries[n][1]), entries[n][2])

\* an object literal { k1: v1, ... } with identity id
ObjLit(id, entries) == Mk("object", id, 0, LitProps(entries))

\* canonical array-index property names sort first, ascending
IndexRange == 0..99
IsIndexName(k) == k.t = "string" /\ \E n \in IndexRange : NumToStr(n) = k.s
IndexValue(k) == CHOOSE n \in IndexRange : NumToStr(n) = k.s

RECURSIVE SortByIndex(_)
SortByIndex(keys) ==
  IF keys = <<>> THEN <<>>
  ELSE LET m == CHOOSE i \in 1..Len(keys) :
                  \A j \in 1..Len(keys) : IndexValue(keys[i]) <= IndexValue(keys[j])
       IN <<keys[m]>> \o
          SortByIndex(SubSeq(keys, 1, m - 1) \o SubSeq(keys, m + 1, Len(keys)))

RECURSIVE KeysOf(_)
KeysOf(props) ==
  IF props = <<>> THEN <<>> ELSE <<KeyOf(Head(props))>> \o KeysOf(Tail(props))

IsSymbolKey(k) == k.t = "symbol"
IsPlainName(k) == k.t = "string" /\ ~IsIndexName(k)

GetOwnPropertySymbols(o) == SelectSeq(KeysOf(o.items), IsSymbolKey)
GetOwnPropertyNames(o) ==
  SortByIndex(SelectSeq(KeysOf(o.items), IsIndexName)) \o
  SelectSeq(KeysOf(o.items), IsPlainName)
\* every property of a literal is enumerable
ObjectKeys(o) == GetOwnPropertyNames(o)

\* o[key]
Get(o, key) ==
  LET k == ToPropertyKey(key)
      hit == {i \in 1..Len(o.items) : SameKey(KeyOf(o.items[i]), k)}
  IN IF hit = {} THEN Undef ELSE ValueOf(o.items[CHOOSE i \in hit : TRUE])

\* names every ordinary object inherits from Object.prototype
ObjectPrototypeNames == {"constructor", "hasOwnProperty", "toString", "valueOf"}

HasOwn(o, key) ==
  \E i \in 1..Len(o.items) : SameKey(KeyOf(o.items[i]), ToPropertyKey(key))

\* the `in` operator: own or inherited
In(key, o) ==
  \/ HasOwn(o, key)
  \/ ToPropertyKey(key).t = "string" /\ ToPropertyKey(key).s \in ObjectPrototypeNames

(* --------------------------- Conditionals ------------------------------ *)

isNull(v) == v.t = "null"
isUndefined(v) == v.t = "undefined"
isMissing(v) == isNull(v) \/ isUndefined(v)
isPresent(v) == ~isMissing(v)
isBoolean(v) == isPresent(v) /\ v.t = "boolean"
isArray(v) == isPresent(v) /\ v.t = "array"
\* typeof v === 'object' holds for arrays and plain objects (null is excluded first)
isObject(v) == isPresent(v) /\ v.t \in {"object", "array"} /\ ~isArray(v)
isString(v) == isPresent(v) /\ v.t = "string"
isNumber(v) == isPresent(v) /\ v.t = "number" /\ v.s # "NaN"
isFunction(v) == isPresent(v) /\ v.t = "function"
isNonEmptyString(v) == isString(v) /\ Len(v.s) > 0
isNonEmptyArray(v) == isArray(v) /\ Len(v.items) > 0
isTrue(v) == isBoolean(v) /\ v.s = "true"
\* Number.isInteger
IsInteger(v) == v.t = "number" /\ v.s = ""
\* v > 0 and v >= 0 on numbers (Half(n) is n + 0.5 with n >= 0)
GreaterThanZero(v) == IF v.s = ".5" THEN TRUE ELSE v.n > 0
AtLeastZero(v) == IF v.s = ".5" THEN TRUE ELSE v.n >= 0
isPositiveInteger(v) == isNumber(v) /\ IsInteger(v) /\ GreaterThanZero(v)
isNonNegativeInteger(v) == isNumber(v) /\ IsInteger(v) /\ AtLeastZero(v)
hasOneItem(v) == isArray(v) /\ Len(v.items) = 1
hasMultipleItems(v) == isArray(v) /\ Len(v.items) > 1
isEqual(a, b) == StrictEquals(a, b)

hasOnlyKeys(v, keys) ==
  IF isObject(v) /\ isArray(keys)
  THEN LET objKeys == ObjectKeys(v)
           propertiesInKeys == SelectSeq(keys.items, LAMBDA key : In(key, v))
       IN /\ isEqual(Num(Len(propertiesInKeys)), Num(Len(objKeys)))
          /\ isEqual(Num(Len(objKeys)), Num(Len(keys.items)))
  ELSE FALSE

(* ---------------------- caller-supplied functions ---------------------- *)

\* what calling the function f with one argument returns:
\*   isPositiveInteger, isNumber   the Conditionals of those names
\*   truthy                        (v) => 1
\*   describe                      (v) => `positive:${v}`
\*   every other function          returns undefined
Apply(f, v) ==
  CASE f.s = "isPositiveInteger" -> Bool(isPositiveInteger(v))
    [] f.s = "isNumber" -> Bool(isNumber(v))
    [] f.s = "truthy" -> Num(1)
    [] f.s = "describe" -> Str("positive:" \o ToString(v))
    [] OTHER -> Undef

ErrorObject(id, message) == ObjLit(id, << <<Str("message"), Str(message)>> >>)

\* what `new f()` does: [threw |-> FALSE] or [threw |-> TRUE, value |-> thrown]
\*   Plain         function () {}
\*   ThrowsError   function () { throw new Error("boom") }
\*   ThrowsNumber  function () { throw 1 }
\*   ThrowsNull    function () { throw null }
\*   ThrowsObject  function () { throw {} }
\*   every other function is an arrow function: TypeError "val is not a constructor"
Construct(f) ==
  CASE f.s = "Plain" -> [threw |-> FALSE, value |-> Undef]
    [] f.s = "ThrowsError" -> [threw |-> TRUE, value |-> ErrorObject("err1", "boom")]
    [] f.s = "ThrowsNumber" -> [threw |-> TRUE, value |-> Num(1)]
    [] f.s = "ThrowsNull" -> [threw |-> TRUE, value |-> Null]
    [] f.s = "ThrowsObject" -> [threw |-> TRUE, value |-> ObjLit("err2", <<>>)]
    [] OTHER -> [threw |-> TRUE, value |-> ErrorObject("err3", "val is not a constructor")]

\* outcome of a predicate call: a returned value or a thrown TypeError
Returned(b) == [threw |-> FALSE, value |-> Bool(b)]
Thrown == [threw |-> TRUE, value |-> Undef]

\* err.message: reading a property of null/undefined throws, of any other
\* primitive gives undefined
MessageOf(err) == IF err.t = "object" THEN Get(err, Str("message")) ELSE Undef

isConstructable(v) ==
  IF ~isFunction(v) THEN Returned(FALSE)
  ELSE LET made == Construct(v)
       IN IF ~made.threw THEN Returned(TRUE)
          ELSE IF isMissing(made.value) THEN Thrown
          ELSE IF MessageOf(made.value).t # "string" THEN Thrown
          ELSE Returned(~isNonNegativeInteger(
                 Num(IndexOf(MessageOf(made.value).s, "is not a constructor"))))

(* ------------------------------- Match --------------------------------- *)

_def == Sym("_def")

Arm(matchExpression, ev) == [matchExpression |-> matchExpression, evaluation |-> ev]

normalizeBasicMatcher(arms) ==
  LET keys == GetOwnPropertySymbols(arms) \o GetOwnPropertyNames(arms)
  IN [i \in 1..Len(keys) |-> Arm(keys[i], Get(arms, keys[i]))]

\* variant: the first argument is itself taken to be the list of entries
normalizeAdvancedMatcherNested(arms) ==
  LET kept == SelectSeq(At(arms, 1).items, isNonEmptyArray)
  IN [i \in 1..Len(kept) |-> Arm(At(kept[i].items, 1), At(kept[i].items, 2))]

\* variant: the filter is isArray, so empty entries survive
normalizeAdvancedMatcherKeepEmpty(arms) ==
  LET kept == SelectSeq(arms, isArray)
  IN [i \in 1..Len(kept) |-> Arm(At(kept[i].items, 1), At(kept[i].items, 2))]

normalizeAdvancedMatcher(arms) ==
  LET kept == SelectSeq(arms, isNonEmptyArray)
  IN [i \in 1..Len(kept) |-> Arm(At(kept[i].items, 1), At(kept[i].items, 2))]

NoError == [kind |-> "", message |-> ""]
InvalidShape ==
  [kind |-> "TypeError", message |-> "matcher has to be either an Object or an Array"]
EmptyMatcher ==
  [kind |-> "TypeError", message |-> "matcher has to contain at least one arm"]
MissingDefault ==
  [kind |-> "ReferenceError", message |-> "matcher needs to contain a default _def arm"]

\* throwIfEmptyArray(arr, message): the error raised, NoError when none
throwIfEmptyArray(arr, err) == IF Len(arr) = 0 THEN err ELSE NoError

\* throwIfMissing(val, message, ErrorType), val being an index of the arm list
throwIfMissing(found, err) == IF found = None THEN err ELSE NoError

\* variant: the search accepts any arm
FindDefaultArmAny(arms) == IF Len(arms) = 0 THEN None ELSE 1

\* normalizedArms.find((arm) => arm.matchExpression === _def), as an index
FindDefaultArm(arms) ==
  LET hits == {i \in 1..Len(arms) : StrictEquals(arms[i].matchExpression, _def)}
  IN IF hits = {} THEN None ELSE CHOOSE i \in hits : \A j \in hits : i <= j

\* ToBoolean
Truthy(v) ==
  CASE v.t \in {"undefined", "null"} -> FALSE
    [] v.t = "boolean" -> v.s = "true"
    [] v.t = "number" -> v.s = ".5" \/ (v.s = "" /\ v.n # 0)
    [] v.t = "string" -> Len(v.s) > 0
    [] OTHER -> TRUE

\* variant: a truthy return counts as a match
ArmMatchesLoose(arm, v) ==
  IF StrictEquals(arm.matchExpression, _def) THEN FALSE
  ELSE IF isFunction(arm.matchExpression) THEN Truthy(Apply(arm.matchExpression, v))
  ELSE isEqual(arm.matchExpression, v)

\* the callback of the explicit-match search, for one arm
ArmMatches(arm, v) ==
  IF StrictEquals(arm.matchExpression, _def) THEN FALSE
  ELSE IF isFunction(arm.matchExpression) THEN isTrue(Apply(arm.matchExpression, v))
  ELSE isEqual(arm.matchExpression, v)

\* the caller's function the callback invokes for one arm, if any
ArmCalls(arm, v, i) ==
  IF ~StrictEquals(arm.matchExpression, _def) /\ isFunction(arm.matchExpression)
  THEN <<[role |-> "matchExpression", fn |-> arm.matchExpression, arg |-> v, arm |-> i]>>
  ELSE <<>>

(* ------------------------------- inputs -------------------------------- *)

Pair(id, a, b) == Arr(id, <<a, b>>)

Vals == {Num(5), Num(6), Num(0 - 3), Num(3), Str("5"), NaN}

\* entries a caller spreads after the first argument
Entries ==
  { Pair("e1", Fn("isPositiveInteger"), Str("pos")),
    Pair("e2", Fn("isPositiveInteger"), Fn("describe")),
    Pair("e3", _def, Str("not-pos")),
    Pair("e4", _def, Str("n/a")),
    Pair("e5", Fn("truthy"), Fn("describe")),
    Pair("e6", Num(5), Str("five")),
    Arr("e7", <<>>),
    Arr("e8", <<Num(6)>>),
    Arr("e9", <<Fn("isNumber"), Str("num"), Str("extra")>>),
    Num(42) }

BasicRecord == ObjLit("o1", << <<_def, Str("other")>>, <<Num(5), Str("five")>> >>)

\* what a caller passes first: an entry, a whole list, a record, or nothing useful
Matchers ==
  Entries \cup
  { Arr("n1", <<Pair("e1", Fn("isPositiveInteger"), Str("pos")),
                Pair("e3", _def, Str("not-pos"))>>),
    Arr("n2", <<Pair("e2", Fn("isPositiveInteger"), Fn("describe")),
                Pair("e4", _def, Str("n/a"))>>),
    Arr("n3", <<Pair("e6", Num(5), Str("five"))>>),
    BasicRecord,
    ObjLit("o2", << <<Num(5), Str("five")>> >>),
    ObjLit("o3", <<>>),
    ObjLit("o4", << <<Str("b"), Fn("describe")>>, <<Num(6), Str("six")>>,
                    <<_def, Fn("describe")>>, <<Num(5), Str("five")>> >>),
    Null }

RECURSIVE RestLists(_)
RestLists(n) ==
  IF n = 0 THEN {<<>>}
  ELSE RestLists(n - 1) \cup
       {Append(r, e) : r \in {q \in RestLists(n - 1) : Len(q) = n - 1}, e \in Entries}

ArgLists ==
  {<<>>} \cup {<<m>> \o r : m \in Matchers, r \in RestLists(MaxArgs - 1)}

(* ------------------------------ actions -------------------------------- *)

NoPredCall == [name |-> "", arg |-> Undef, keys |-> Undef, threw |-> FALSE, value |-> Undef]

Init ==
  /\ pc = "idle"
  /\ val = Undef
  /\ args = <<>>
  /\ normalizedArms = <<>>
  /\ defaultArm = None
  /\ idx = None
  /\ explicitMatch = None
  /\ evaluation = Undef
  /\ result = Undef
  /\ error = NoError
  /\ calls = <<>>
  /\ predCall = NoPredCall

\* match(v)(...a) is entered
Call ==
  /\ pc = "idle"
  /\ pc' = "shape"
  /\ \E v \in Vals, a \in ArgLists : val' = v /\ args' = a
  /\ UNCHANGED <<normalizedArms, defaultArm, idx, explicitMatch, evaluation,
                 result, error, calls, predCall>>

\* variant: the shape of the matcher is not checked
CheckShapeLenient ==
  /\ pc = "shape"
  /\ pc' = "normalize"
  /\ UNCHANGED <<val, args, normalizedArms, defaultArm, idx, explicitMatch,
                 evaluation, result, error, calls, predCall>>

CheckShape ==
  /\ pc = "shape"
  /\ IF ~(isObject(At(args, 1)) \/ isArray(At(args, 1)))
     THEN error' = InvalidShape /\ pc' = "done"
     ELSE error' = error /\ pc' = "normalize"
  /\ UNCHANGED <<val, args, normalizedArms, defaultArm, idx, explicitMatch,
                 evaluation, result, calls, predCall>>

Normalize ==
  /\ pc = "normalize"
  /\ normalizedArms' = IF isObject(At(args, 1))
                       THEN normalizeBasicMatcher(At(args, 1))
                       ELSE normalizeAdvancedMatcher(args)
  /\ pc' = "checkEmpty"
  /\ UNCHANGED <<val, args, defaultArm, idx, explicitMatch, evaluation, result,
                 error, calls, predCall>>

CheckEmpty ==
  /\ pc = "checkEmpty"
  /\ error' = throwIfEmptyArray(normalizedArms, EmptyMatcher)
  /\ pc' = IF error' = NoError THEN "findDefault" ELSE "done"
  /\ UNCHANGED <<val, args, normalizedArms, defaultArm, idx, explicitMatch,
                 evaluation, result, calls, predCall>>

FindDefault ==
  /\ pc = "findDefault"
  /\ defaultArm' = FindDefaultArm(normalizedArms)
  /\ pc' = "checkDefault"
  /\ UNCHANGED <<val, args, normalizedArms, idx, explicitMatch, evaluation,
                 result, error, calls, predCall>>

CheckDefault ==
  /\ pc = "checkDefault"
  /\ error' = throwIfMissing(defaultArm, MissingDefault)
  /\ pc' = IF error' = NoError THEN "scan" ELSE "done"
  /\ idx' = IF error' = NoError THEN 1 ELSE idx
  /\ UNCHANGED <<val, args, normalizedArms, defaultArm, explicitMatch,
                 evaluation, result, calls, predCall>>

\* variant: the search keeps calling the callback after the first hit
ScanWholeList ==
  /\ pc = "scan"
  /\ IF idx > Len(normalizedArms)
     THEN /\ pc' = "select"
          /\ UNCHANGED <<idx, explicitMatch, calls>>
     ELSE /\ calls' = calls \o ArmCalls(normalizedArms[idx], val, idx)
          /\ explicitMatch' = IF explicitMatch = None /\ ArmMatches(normalizedArms[idx], val)
                              THEN idx ELSE explicitMatch
          /\ pc' = "scan"
          /\ idx' = idx + 1
  /\ UNCHANGED <<val, args, normalizedArms, defaultArm, evaluation, result,
                 error, predCall>>

\* one iteration of normalizedArms.find(callback): the callback runs on arm idx
Scan ==
  /\ pc = "scan"
  /\ IF idx > Len(normalizedArms)
     THEN /\ pc' = "select"
          /\ UNCHANGED <<idx, explicitMatch, calls>>
     ELSE /\ calls' = calls \o ArmCalls(normalizedArms[idx], val, idx)
          /\ IF ArmMatches(normalizedArms[idx], val)
             THEN explicitMatch' = idx /\ pc' = "select" /\ idx' = idx
             ELSE explicitMatch' = explicitMatch /\ pc' = "scan" /\ idx' = idx + 1
  /\ UNCHANGED <<val, args, normalizedArms, defaultArm, evaluation, result,
                 error, predCall>>

Select ==
  /\ pc = "select"
  /\ evaluation' = IF explicitMatch # None
                   THEN normalizedArms[explicitMatch].evaluation
                   ELSE normalizedArms[defaultArm].evaluation
  /\ pc' = "produce"
  /\ UNCHANGED <<val, args, normalizedArms, defaultArm, idx, explicitMatch,
                 result, error, calls, predCall>>

\* variant: the evaluation is returned as it is, callable or not
ProduceVerbatim ==
  /\ pc = "produce"
  /\ result' = evaluation
  /\ pc' = "done"
  /\ UNCHANGED <<val, args, normalizedArms, defaultArm, idx, explicitMatch,
                 evaluation, error, calls, predCall>>

Produce ==
  /\ pc = "produce"
  /\ IF isFunction(evaluation)
     THEN /\ calls' = Append(calls, [role |-> "evaluation", fn |-> evaluation,
                                     arg |-> val,
                                     arm |-> IF explicitMatch # None
                                             THEN explicitMatch ELSE defaultArm])
          /\ result' = Apply(evaluation, val)
     ELSE /\ calls' = calls
          /\ result' = evaluation
  /\ pc' = "done"
  /\ UNCHANGED <<val, args, normalizedArms, defaultArm, idx, explicitMatch,
                 evaluation, error, predCall>>

\* the call has returned or thrown; nothing of it outlives the invocation
Return ==
  /\ pc \in {"done", "predDone"}
  /\ pc' = "idle"
  /\ val' = Undef
  /\ args' = <<>>
  /\ normalizedArms' = <<>>
  /\ defaultArm' = None
  /\ idx' = None
  /\ explicitMatch' = None
  /\ evaluation' = Undef
  /\ result' = Undef
  /\ error' = NoError
  /\ calls' = <<>>
  /\ predCall' = NoPredCall

(* ------------------------ predicate-layer calls ------------------------ *)

ConditionalNames ==
  {"isNull", "isUndefined", "isMissing", "isPresent", "isBoolean", "isArray",
   "isObject", "isString", "isNumber", "isFunction", "isNonEmptyString",
   "isNonEmptyArray", "isTrue", "isPositiveInteger", "isNonNegativeInteger",
   "hasOneItem", "hasMultipleItems"}

Conditional(name, v) ==
  CASE name = "isNull" -> isNull(v)
    [] name = "isUndefined" -> isUndefined(v)
    [] name = "isMissing" -> isMissing(v)
    [] name = "isPresent" -> isPresent(v)
    [] name = "isBoolean" -> isBoolean(v)
    [] name = "isArray" -> isArray(v)
    [] name = "isObject" -> isObject(v)
    [] name = "isString" -> isString(v)
    [] name = "isNumber" -> isNumber(v)
    [] name = "isFunction" -> isFunction(v)
    [] name = "isNonEmptyString" -> isNonEmptyString(v)
    [] name = "isNonEmptyArray" -> isNonEmptyArray(v)
    [] name = "isTrue" -> isTrue(v)
    [] name = "isPositiveInteger" -> isPositiveInteger(v)
    [] name = "isNonNegativeInteger" -> isNonNegativeInteger(v)
    [] name = "hasOneItem" -> hasOneItem(v)
    [] name = "hasMultipleItems" -> hasMultipleItems(v)

Functions ==
  {Fn("Plain"), Fn("ThrowsError"), Fn("ThrowsNumber"), Fn("ThrowsNull"),
   Fn("ThrowsObject"), Fn("describe")}

Records ==
  { ObjLit("r1", << <<Str("a"), Num(1)>>, <<Str("b"), Num(2)>> >>),
    ObjLit("r2", << <<Str("x"), Num(1)>> >>),
    ObjLit("r3", <<>>),
    ObjLit("r4", << <<Num(5), Str("five")>> >>),
    ObjLit("r5", << <<Str("a"), ObjLit("r6", << <<Str("b"), Arr("k0", <<Null>>)>> >>)>> >>) }

KeyLists ==
  { Arr("k1", <<Str("a"), Str("b")>>),
    Arr("k2", <<Str("b"), Str("a")>>),
    Arr("k3", <<Str("a"), Str("a")>>),
    Arr("k4", <<Str("a")>>),
    Arr("k5", <<Str("toString")>>),
    Arr("k6", <<Str("x")>>),
    Arr("k7", <<Num(5)>>),
    Arr("k8", <<>>) }

PredInputs ==
  {Null, Undef, Num(0), Num(0 - 3), Num(3), Half(2), NaN, Str(""), Str("5"),
   Bool(TRUE), Bool(FALSE), _def}
  \cup Functions \cup Records \cup KeyLists

CallConditional ==
  /\ pc = "idle"
  /\ \E name \in ConditionalNames, v \in PredInputs :
       predCall' = [name |-> name, arg |-> v, keys |-> Undef,
                    threw |-> FALSE, value |-> Bool(Conditional(name, v))]
  /\ pc' = "predDone"
  /\ UNCHANGED <<val, args, normalizedArms, defaultArm, idx, explicitMatch,
                 evaluation, result, error, calls>>

CallIsConstructable ==
  /\ pc = "idle"
  /\ \E v \in PredInputs :
       predCall' = [name |-> "isConstructable", arg |-> v, keys |-> Undef,
                    threw |-> isConstructable(v).threw,
                    value |-> isConstructable(v).value]
  /\ pc' = "predDone"
  /\ UNCHANGED <<val, args, normalizedArms, defaultArm, idx, explicitMatch,
                 evaluation, result, error, calls>>

CallHasOnlyKeys ==
  /\ pc = "idle"
  /\ \E v \in PredInputs, keys \in PredInputs :
       predCall' = [name |-> "hasOnlyKeys", arg |-> v, keys |-> keys,
                    threw |-> FALSE, value |-> Bool(hasOnlyKeys(v, keys))]
  /\ pc' = "predDone"
  /\ UNCHANGED <<val, args, normalizedArms, defaultArm, idx, explicitMatch,
                 evaluation, result, error, calls>>

Next ==
  \/ Call
  \/ CheckShape
  \/ Normalize
  \/ CheckEmpty
  \/ FindDefault
  \/ CheckDefault
  \/ Scan
  \/ Select
  \/ Produce
  \/ Return
  \/ CallConditional
  \/ CallIsConstructable
  \/ CallHasOnlyKeys

Spec == Init /\ [][Next]_vars

(* ------------------------------ properties ----------------------------- *)

\* the call got past validation
Validated == pc \in {"scan", "select", "produce"} \/ (pc = "done" /\ error = NoError)
\* the call returned a result
Returns == pc = "done" /\ error = NoError

Least(S) == CHOOSE i \in S : \A j \in S : i <= j
\* the k-th smallest member of a set of indices
KthOf(S, k) == CHOOSE i \in S : Cardinality({j \in S : j <= i}) = k

IsDefault(e) == e.t = "symbol" /\ e.s = "_def"
DefaultArms == {i \in 1..Len(normalizedArms) : IsDefault(normalizedArms[i].matchExpression)}

\* arm i matches the input: a callable expression returning exactly true, or a
\* non-callable expression strictly equal to the input
ArmFits(i) ==
  LET e == normalizedArms[i].matchExpression
  IN /\ ~IsDefault(e)
     /\ IF e.t = "function" THEN Apply(e, val) = Bool(TRUE) ELSE StrictEquals(e, val)
FittingArms == {i \in 1..Len(normalizedArms) : ArmFits(i)}
ExpectedArm == IF FittingArms # {} THEN Least(FittingArms) ELSE Least(DefaultArms)

\* what an evaluation yields for the input
Yield(ev) == IF ev.t = "function" THEN Apply(ev, val) ELSE ev

\* C1: once validation has passed, the arm whose evaluation is taken is the
\* first non-default arm, in list order, whose expression is callable and
\* returns exactly true for the input or is not callable and strictly equals
\* the input; with no such arm it is the default arm.
C1_FirstMatchSelected ==
  (pc = "produce" \/ Returns) =>
    /\ explicitMatch = (IF FittingArms # {} THEN Least(FittingArms) ELSE None)
    /\ evaluation = normalizedArms[ExpectedArm].evaluation

\* a truthy, non-boolean return was passed over and the next arm selected
C1_Witness ==
  /\ Returns
  /\ Len(normalizedArms) = 3
  /\ normalizedArms[1].matchExpression = Fn("truthy")
  /\ explicitMatch = 2
  /\ result = Str("pos")

\* C2: match(5)({ [_def]: "other", 5: "five" }) is "five" and
\* match(6)({ [_def]: "other", 5: "five" }) is "other".
C2_BasicNumberKey ==
  (pc = "done" /\ args = <<BasicRecord>>) =>
    /\ (val = Num(5) => (error = NoError /\ result = Str("five")))
    /\ (val = Num(6) => (error = NoError /\ result = Str("other")))

IsPair(a) == a.t = "array" /\ Len(a.items) = 2
IsPredicatePair(a) == IsPair(a) /\ a.items[1].t = "function"
IsDefaultPair(a) == IsPair(a) /\ IsDefault(a.items[1])

\* result of a two-arm matcher [p, e], [_def, d]
TwoArmResult(first, second) ==
  IF Apply(first.items[1], val) = Bool(TRUE)
  THEN Yield(first.items[2]) ELSE Yield(second.items[2])

\* C3 as stated: with the arms passed as one sequence, match(v)([[p, e], [_def, d]])
\* returns e (or e(v)) when p returns true for v and d otherwise, without raising.
C3_ArmsAsOneSequence ==
  ( /\ pc = "done"
    /\ Len(args) = 1
    /\ IsPair(args[1])
    /\ IsPredicatePair(args[1].items[1])
    /\ IsDefaultPair(args[1].items[2]) ) =>
    /\ error = NoError
    /\ result = TwoArmResult(args[1].items[1], args[1].items[2])

\* C3 amended: with the arms passed as separate arguments, match(v)([p, e], [_def, d])
\* returns e (or e(v)) when p returns true for v and d otherwise, without raising;
\* match(-3)([isPositiveInteger, "pos"], [_def, "not-pos"]) is "not-pos" and
\* match(3)([isPositiveInteger, f], [_def, "n/a"]) is f(3).
C3_ArmsAsArguments ==
  ( /\ pc = "done"
    /\ Len(args) = 2
    /\ IsPredicatePair(args[1])
    /\ IsDefaultPair(args[2]) ) =>
    /\ error = NoError
    /\ result = TwoArmResult(args[1], args[2])
    /\ ( (val = Num(0 - 3) /\ args[1].items[1] = Fn("isPositiveInteger")
           /\ args[2].items[2] = Str("not-pos")) => result = Str("not-pos") )
    /\ ( (val = Num(3) /\ args[1].items[1] = Fn("isPositiveInteger")
           /\ args[1].items[2] = Fn("describe")) => result = Str("positive:3") )

C3_Witness ==
  /\ pc = "done"
  /\ val = Num(3)
  /\ Len(args) = 2
  /\ args[1] = Pair("e2", Fn("isPositiveInteger"), Fn("describe"))
  /\ args[2] = Pair("e4", _def, Str("n/a"))
  /\ result = Str("positive:3")

AdvancedNormalized ==
  /\ pc \in {"checkEmpty", "findDefault", "checkDefault", "scan", "select", "produce", "done"}
  /\ At(args, 1).t = "array"

TwoElementEntries == {i \in 1..Len(args) : args[i].t = "array" /\ Len(args[i].items) = 2}
NonEmptyEntries == {i \in 1..Len(args) : args[i].t = "array" /\ Len(args[i].items) >= 1}

\* C4 as stated: the arms of an advanced matcher are exactly the entries that
\* are sequences of exactly two elements, in order, one arm per entry.
C4_OnlyPairsKept ==
  AdvancedNormalized =>
    /\ Len(normalizedArms) = Cardinality(TwoElementEntries)
    /\ \A k \in 1..Len(normalizedArms) :
         LET entry == args[KthOf(TwoElementEntries, k)]
         IN normalizedArms[k] = Arm(entry.items[1], entry.items[2])

\* C4 amended: the arms of an advanced matcher are exactly the entries that are
\* non-empty sequences, in order, one arm per entry, made of the entry's first
\* element and its second (absent for a one-element entry, later elements
\* ignored); entries that are not sequences or are empty are dropped, and
\* normalization raises nothing.
C4_NonEmptyEntriesKept ==
  AdvancedNormalized =>
    /\ (pc = "checkEmpty" => error = NoError)
    /\ Len(normalizedArms) = Cardinality(NonEmptyEntries)
    /\ \A k \in 1..Len(normalizedArms) :
         LET entry == args[KthOf(NonEmptyEntries, k)]
         IN normalizedArms[k] =
              Arm(entry.items[1],
                  IF Len(entry.items) >= 2 THEN entry.items[2] ELSE Undef)

\* a one-element and a three-element entry were kept, an empty one dropped
C4_Witness ==
  /\ pc = "checkEmpty"
  /\ Len(args) = 3
  /\ Len(args[1].items) = 1
  /\ args[2] = Arr("e7", <<>>)
  /\ Len(args[3].items) = 3
  /\ Len(normalizedArms) = 2
  /\ normalizedArms[1].evaluation = Undef

\* C5 as stated: a validated arm list holds exactly one default arm.
C5_ExactlyOneDefault == Validated => Cardinality(DefaultArms) = 1

\* C5 amended: a validated arm list holds at least one default arm, exactly one
\* when it was built from the basic form; the default arm used is the first.
C5_AtLeastOneDefault ==
  Validated =>
    /\ Cardinality(DefaultArms) >= 1
    /\ (At(args, 1).t = "object" => Cardinality(DefaultArms) = 1)
    /\ defaultArm = Least(DefaultArms)

C5_Witness == Returns /\ Cardinality(DefaultArms) = 2 /\ defaultArm = 1

\* C6: once validation is over, a matcher that is neither record nor sequence
\* (or absent) gave the invalid-shape TypeError; otherwise zero arms gave the
\* empty-matcher error; otherwise no default arm gave the missing-default
\* ReferenceError, of a kind unlike the other two; otherwise no error.
\* match(v)([]) fails as empty and match(v)([[x, y]]) as missing default.
C6_ValidationOutcome ==
  (pc \in {"scan", "select", "produce", "done"}) =>
    /\ IF At(args, 1).t \notin {"object", "array"} THEN error = InvalidShape
       ELSE IF Len(normalizedArms) = 0 THEN error = EmptyMatcher
       ELSE IF DefaultArms = {} THEN error = MissingDefault
       ELSE error = NoError
    /\ (error # NoError => pc = "done")
    /\ (error = MissingDefault => error.kind \notin {InvalidShape.kind, EmptyMatcher.kind})
    /\ (args = <<Arr("e7", <<>>)>> => error = EmptyMatcher)
    /\ ( (Len(args) = 1 /\ At(args, 1).t = "array" /\ Len(At(args, 1).items) = 1
          /\ IsPair(At(args, 1).items[1])) => error = MissingDefault )

C6_Witness ==
  /\ pc = "done"
  /\ args = <<Arr("n3", <<Pair("e6", Num(5), Str("five"))>>)>>
  /\ error = MissingDefault

EvaluationCalls == {i \in 1..Len(calls) : calls[i].role = "evaluation"}

\* C7: a callable evaluation of the selected arm is invoked exactly once, with
\* the original input, and its return value is the result; a non-callable one
\* is the result and is not invoked; no other arm's evaluation is invoked.
C7_EvaluationInvokedOnce ==
  /\ (pc # "done" => EvaluationCalls = {})
  /\ Returns =>
       LET ev == normalizedArms[ExpectedArm].evaluation
       IN IF ev.t = "function"
          THEN /\ Cardinality(EvaluationCalls) = 1
               /\ \A i \in EvaluationCalls :
                    calls[i].fn = ev /\ calls[i].arg = val /\ calls[i].arm = ExpectedArm
               /\ result = Apply(ev, val)
          ELSE /\ EvaluationCalls = {}
               /\ result = ev

\* the second arm's callable evaluation ran; the first arm's, also callable, did not
C7_Witness ==
  /\ Returns
  /\ explicitMatch = 2
  /\ normalizedArms[1].evaluation.t = "function"
  /\ Cardinality(EvaluationCalls) = 1
  /\ result = Str("positive:3")

OwnKeySet(o) == {KeyOf(o.items[i]) : i \in 1..Len(o.items)}
ElementKeySet(a) == {ToPropertyKey(a.items[i]) : i \in 1..Len(a.items)}

\* C8: hasOnlyKeys(val, keys) is true exactly when val is an object whose set of
\* own keys equals the set of elements of keys.
C8_HasOnlyKeysIsSetEquality ==
  (pc = "predDone" /\ predCall.name = "hasOnlyKeys") =>
    predCall.value =
      Bool(/\ predCall.arg.t = "object"
           /\ predCall.keys.t = "array"
           /\ OwnKeySet(predCall.arg) = ElementKeySet(predCall.keys))

\* C9: every predicate returns a boolean and never throws.
C9_PredicatesTotal ==
  pc = "predDone" => (~predCall.threw /\ predCall.value.t = "boolean")

\* C10: no caller function runs before validation has passed or in a call that
\* fails validation; match expressions are invoked in arm order, each at most
\* once and none after the first matching arm; the evaluation is invoked last,
\* after the scan.
C10_CallOrder ==
  /\ (pc \in {"shape", "normalize", "checkEmpty", "findDefault", "checkDefault"}
        => calls = <<>>)
  /\ (error # NoError => calls = <<>>)
  /\ \A i \in 1..Len(calls) :
       IF calls[i].role = "matchExpression"
       THEN /\ calls[i].fn = normalizedArms[calls[i].arm].matchExpression
            /\ calls[i].arg = val
            /\ \A j \in 1..(i - 1) :
                 calls[j].role = "matchExpression" /\ calls[j].arm < calls[i].arm
            /\ \A k \in 1..(calls[i].arm - 1) : ~ArmFits(k)
       ELSE i = Len(calls) /\ pc = "done"
  /\ (pc = "scan" => \A i \in 1..Len(calls) : calls[i].arm < idx)

\* the first arm matched, the second arm's predicate was never called, and the
\* evaluation ran after the scan
C10_Witness ==
  /\ Returns
  /\ explicitMatch = 1
  /\ Len(normalizedArms) = 3
  /\ normalizedArms[2].matchExpression.t = "function"
  /\ Len(calls) = 2
  /\ calls[1].role = "matchExpression"
  /\ calls[2].role = "evaluation"

====
